---- MODULE Spec2Model ----
(***************************************************************************)
(* Model of src/storage/txn/commands.rs: the transaction scheduler's       *)
(* Command / CommandKind catalogue, its classification functions           *)
(* (readonly, priority, is_sys_cmd, priority_tag, need_flow_control, tag,  *)
(* ts, write_bytes, Display) and the two PointGetCommand constructors.     *)
(*                                                                         *)
(* A Command is a record [ctx, kind]; kind is a record whose `variant`     *)
(* field is the enum discriminant and whose other fields are the variant's *)
(* payload.  Vec<T> is a sequence, Option<T> is a sequence of length <= 1, *)
(* Key and Vec<u8> are sequences of bytes.                                 *)
(***************************************************************************)
EXTENDS Integers, Sequences, FiniteSets, TLC

VARIABLES cmd, ret, request, point_get

vars == <<cmd, ret, request, point_get>>

(***************************************************************************)
(* Bounds of the model.                                                    *)
(***************************************************************************)
\* longest (already encoded) key carried by a Command
MaxKeyLen == 1
\* longest Vec carried by a Command (mutations, keys, key_locks, ...)
MaxVec == 2
\* largest timestamp / version / ttl / duration value
MaxTs == 1
\* longest raw key of a Get / RawGet request
MaxRawLen == 2

(***************************************************************************)
(* Generic helpers.                                                        *)
(***************************************************************************)
SeqsUpTo(S, n) == UNION {[1..m -> S] : m \in 0..n}

None == <<>>

Some(x) == <<x>>

OptionOf(S) == {None} \cup {Some(x) : x \in S}

(***************************************************************************)
(* Data model.                                                             *)
(***************************************************************************)
\* kvproto CommandPri
CommandPri == {"Low", "Normal", "High"}

\* kvproto Context: opaque to this file except for its priority
Contexts == [priority : CommandPri]

\* Context::default(): the protobuf default priority is Normal
DefaultContext == [priority |-> "Normal"]

TimeStamps == 0..MaxTs

\* TimeStamp::zero()
TsZero == 0

KeyBytes == {0}

\* txn_types::Key: a wrapper around the encoded bytes
Keys == SeqsUpTo(KeyBytes, MaxKeyLen)

\* values written by Put / Insert
Values == {<<>>, <<0>>}

\* txn_types::Mutation
Mutations ==
    [op : {"Put", "Insert"}, key : Keys, value : Values]
        \cup [op : {"Delete", "Lock"}, key : Keys]

\* txn_types::Lock, reduced to the owning transaction's start timestamp
Locks == [ts : TimeStamps \ {TsZero}]

\* Options::default() with for_update_ts set: 0 is optimistic, else pessimistic
OptionsWith(fu) ==
    [lock_ttl |-> 0, skip_constraint_check |-> FALSE, key_only |-> FALSE,
     reverse_scan |-> FALSE, is_first_lock |-> FALSE, for_update_ts |-> fu,
     is_pessimistic_lock |-> <<>>, txn_size |-> 0, min_commit_ts |-> TsZero,
     wait_timeout |-> 0]

OptionsSet == {OptionsWith(fu) : fu \in {TsZero, MaxTs}}

\* txn_status of ResolveLock: lock_ts -> commit_ts (0 = rolled back)
TxnStatusMaps == {<<>>, [t \in {MaxTs} |-> TsZero]}

Variants ==
    {"Prewrite", "AcquirePessimisticLock", "Commit", "Cleanup", "Rollback",
     "PessimisticRollback", "TxnHeartBeat", "CheckTxnStatus", "ScanLock",
     "ResolveLock", "ResolveLockLite", "DeleteRange", "Pause", "MvccByKey",
     "MvccByStartTs"}

\* the payloads of one variant of CommandKind
KindsOf(v) ==
    CASE v = "Prewrite" ->
            [variant : {"Prewrite"}, mutations : SeqsUpTo(Mutations, MaxVec),
             primary : {<<0>>}, start_ts : TimeStamps, options : OptionsSet]
      [] v = "AcquirePessimisticLock" ->
            [variant : {"AcquirePessimisticLock"},
             keys : SeqsUpTo(Keys \X BOOLEAN, MaxVec),
             primary : {<<0>>}, start_ts : TimeStamps, options : OptionsSet]
      [] v = "Commit" ->
            [variant : {"Commit"}, keys : SeqsUpTo(Keys, MaxVec),
             lock_ts : TimeStamps, commit_ts : TimeStamps]
      [] v = "Cleanup" ->
            [variant : {"Cleanup"}, key : Keys, start_ts : TimeStamps,
             current_ts : TimeStamps]
      [] v = "Rollback" ->
            [variant : {"Rollback"}, keys : SeqsUpTo(Keys, MaxVec),
             start_ts : TimeStamps]
      [] v = "PessimisticRollback" ->
            [variant : {"PessimisticRollback"}, keys : SeqsUpTo(Keys, MaxVec),
             start_ts : TimeStamps, for_update_ts : TimeStamps]
      [] v = "TxnHeartBeat" ->
            [variant : {"TxnHeartBeat"}, primary_key : Keys, start_ts : TimeStamps,
             advise_ttl : 0..MaxTs]
      [] v = "CheckTxnStatus" ->
            [variant : {"CheckTxnStatus"}, primary_key : Keys, lock_ts : TimeStamps,
             caller_start_ts : TimeStamps, current_ts : TimeStamps,
             rollback_if_not_exist : BOOLEAN]
      [] v = "ScanLock" ->
            [variant : {"ScanLock"}, max_ts : TimeStamps, start_key : OptionOf(Keys),
             limit : 0..MaxTs]
      [] v = "ResolveLock" ->
            [variant : {"ResolveLock"}, txn_status : TxnStatusMaps,
             scan_key : OptionOf(Keys), key_locks : SeqsUpTo(Keys \X Locks, MaxVec)]
      [] v = "ResolveLockLite" ->
            [variant : {"ResolveLockLite"}, start_ts : TimeStamps,
             commit_ts : TimeStamps, resolve_keys : SeqsUpTo(Keys, MaxVec)]
      [] v = "DeleteRange" ->
            [variant : {"DeleteRange"}, start_key : Keys, end_key : Keys]
      [] v = "Pause" ->
            [variant : {"Pause"}, keys : SeqsUpTo(Keys, MaxVec), duration : 0..MaxTs]
      [] v = "MvccByKey" ->
            [variant : {"MvccByKey"}, key : Keys]
      [] v = "MvccByStartTs" ->
            [variant : {"MvccByStartTs"}, start_ts : TimeStamps]

CommandKind == UNION {KindsOf(v) : v \in Variants}

Command == [ctx : Contexts, kind : CommandKind]

(***************************************************************************)
(* Classification functions of impl Command.                               *)
(***************************************************************************)
\* readonly with the key_locks test of the ResolveLock arm dropped
readonly_mut(c) ==
    CASE c.kind.variant \in {"ScanLock", "DeleteRange", "MvccByKey",
                             "MvccByStartTs", "ResolveLock"} -> TRUE
      [] OTHER -> FALSE

readonly(c) ==
    CASE c.kind.variant \in {"ScanLock", "DeleteRange", "MvccByKey",
                             "MvccByStartTs"} -> TRUE
      [] c.kind.variant = "ResolveLock" -> c.kind.key_locks = <<>>
      [] OTHER -> FALSE

priority(c) == c.ctx.priority

\* is_sys_cmd with the ResolveLockLite arm forgotten
is_sys_cmd_mut(c) ==
    CASE c.kind.variant \in {"ScanLock", "ResolveLock"} -> TRUE
      [] OTHER -> FALSE

is_sys_cmd(c) ==
    CASE c.kind.variant \in {"ScanLock", "ResolveLock", "ResolveLockLite"}
            -> TRUE
      [] OTHER -> FALSE

\* get_priority_tag with the Low arm returning the Normal category
get_priority_tag_mut(p) ==
    CASE p = "Low" -> "normal"
      [] p = "Normal" -> "normal"
      [] p = "High" -> "high"

get_priority_tag(p) ==
    CASE p = "Low" -> "low"
      [] p = "Normal" -> "normal"
      [] p = "High" -> "high"

priority_tag(c) == get_priority_tag(c.ctx.priority)

\* need_flow_control with the priority test dropped
need_flow_control_mut(c) == ~readonly(c)

need_flow_control(c) == ~readonly(c) /\ priority(c) # "High"

\* tag with the MvccByStartTs arm copied from the MvccByKey arm
tag_mut(c) ==
    CASE c.kind.variant = "Prewrite" -> "prewrite"
      [] c.kind.variant = "AcquirePessimisticLock" -> "acquire_pessimistic_lock"
      [] c.kind.variant = "Commit" -> "commit"
      [] c.kind.variant = "Cleanup" -> "cleanup"
      [] c.kind.variant = "Rollback" -> "rollback"
      [] c.kind.variant = "PessimisticRollback" -> "pessimistic_rollback"
      [] c.kind.variant = "TxnHeartBeat" -> "txn_heart_beat"
      [] c.kind.variant = "CheckTxnStatus" -> "check_txn_status"
      [] c.kind.variant = "ScanLock" -> "scan_lock"
      [] c.kind.variant = "ResolveLock" -> "resolve_lock"
      [] c.kind.variant = "ResolveLockLite" -> "resolve_lock_lite"
      [] c.kind.variant = "DeleteRange" -> "delete_range"
      [] c.kind.variant = "Pause" -> "pause"
      [] c.kind.variant = "MvccByKey" -> "key_mvcc"
      [] c.kind.variant = "MvccByStartTs" -> "key_mvcc"

tag(c) ==
    CASE c.kind.variant = "Prewrite" -> "prewrite"
      [] c.kind.variant = "AcquirePessimisticLock" -> "acquire_pessimistic_lock"
      [] c.kind.variant = "Commit" -> "commit"
      [] c.kind.variant = "Cleanup" -> "cleanup"
      [] c.kind.variant = "Rollback" -> "rollback"
      [] c.kind.variant = "PessimisticRollback" -> "pessimistic_rollback"
      [] c.kind.variant = "TxnHeartBeat" -> "txn_heart_beat"
      [] c.kind.variant = "CheckTxnStatus" -> "check_txn_status"
      [] c.kind.variant = "ScanLock" -> "scan_lock"
      [] c.kind.variant = "ResolveLock" -> "resolve_lock"
      [] c.kind.variant = "ResolveLockLite" -> "resolve_lock_lite"
      [] c.kind.variant = "DeleteRange" -> "delete_range"
      [] c.kind.variant = "Pause" -> "pause"
      [] c.kind.variant = "MvccByKey" -> "key_mvcc"
      [] c.kind.variant = "MvccByStartTs" -> "start_ts_mvcc"

\* ts with the Commit arm binding commit_ts instead of lock_ts
ts_mut(c) ==
    CASE c.kind.variant \in {"Prewrite", "AcquirePessimisticLock", "Cleanup",
                             "Rollback", "PessimisticRollback",
                             "MvccByStartTs", "TxnHeartBeat"}
            -> c.kind.start_ts
      [] c.kind.variant = "Commit" -> c.kind.commit_ts
      [] c.kind.variant = "CheckTxnStatus" -> c.kind.lock_ts
      [] c.kind.variant = "ScanLock" -> c.kind.max_ts
      [] c.kind.variant = "ResolveLockLite" -> c.kind.start_ts
      [] c.kind.variant \in {"ResolveLock", "DeleteRange", "Pause",
                             "MvccByKey"} -> TsZero

ts(c) ==
    CASE c.kind.variant \in {"Prewrite", "AcquirePessimisticLock", "Cleanup",
                             "Rollback", "PessimisticRollback",
                             "MvccByStartTs", "TxnHeartBeat"}
            -> c.kind.start_ts
      [] c.kind.variant \in {"Commit", "CheckTxnStatus"} -> c.kind.lock_ts
      [] c.kind.variant = "ScanLock" -> c.kind.max_ts
      [] c.kind.variant = "ResolveLockLite" -> c.kind.start_ts
      [] c.kind.variant \in {"ResolveLock", "DeleteRange", "Pause",
                             "MvccByKey"} -> TsZero

\* mutation_bytes with Insert moved to the key-only arm
mutation_bytes_mut(m) ==
    CASE m.op = "Put" -> Len(m.key) + Len(m.value)
      [] m.op \in {"Insert", "Delete", "Lock"} -> Len(m.key)

\* one iteration of the Prewrite loop of write_bytes: bytes += ...
mutation_bytes(m) ==
    CASE m.op \in {"Put", "Insert"} -> Len(m.key) + Len(m.value)
      [] m.op \in {"Delete", "Lock"} -> Len(m.key)

\* `for m in mutations { bytes += ... }`, starting from `bytes`
RECURSIVE sum_mutations(_, _)
sum_mutations(ms, bytes) ==
    IF ms = <<>> THEN bytes
    ELSE sum_mutations(Tail(ms), bytes + mutation_bytes(Head(ms)))

\* `for key in keys { bytes += key.as_encoded().len() }`
RECURSIVE sum_keys(_, _)
sum_keys(ks, bytes) ==
    IF ks = <<>> THEN bytes
    ELSE sum_keys(Tail(ks), bytes + Len(Head(ks)))

\* `for (key, _) in keys` and `for lock in key_locks { ... lock.0 ... }`
RECURSIVE sum_pair_keys(_, _)
sum_pair_keys(ps, bytes) ==
    IF ps = <<>> THEN bytes
    ELSE sum_pair_keys(Tail(ps), bytes + Len(Head(ps)[1]))

\* write_bytes with an arm added that weighs the two keys of DeleteRange
write_bytes_range_mut(c) ==
    CASE c.kind.variant = "Prewrite" -> sum_mutations(c.kind.mutations, 0)
      [] c.kind.variant = "AcquirePessimisticLock"
            -> sum_pair_keys(c.kind.keys, 0)
      [] c.kind.variant \in {"Commit", "Rollback", "PessimisticRollback",
                             "Pause"} -> sum_keys(c.kind.keys, 0)
      [] c.kind.variant = "ResolveLock" -> sum_pair_keys(c.kind.key_locks, 0)
      [] c.kind.variant = "ResolveLockLite"
            -> sum_keys(c.kind.resolve_keys, 0)
      [] c.kind.variant = "Cleanup" -> 0 + Len(c.kind.key)
      [] c.kind.variant = "TxnHeartBeat" -> 0 + Len(c.kind.primary_key)
      [] c.kind.variant = "CheckTxnStatus" -> 0 + Len(c.kind.primary_key)
      [] c.kind.variant = "DeleteRange"
            -> 0 + Len(c.kind.start_key) + Len(c.kind.end_key)
      [] OTHER -> 0

\* write_bytes with Pause left to the catch-all arm
write_bytes_mut(c) ==
    CASE c.kind.variant = "Prewrite" -> sum_mutations(c.kind.mutations, 0)
      [] c.kind.variant = "AcquirePessimisticLock"
            -> sum_pair_keys(c.kind.keys, 0)
      [] c.kind.variant \in {"Commit", "Rollback", "PessimisticRollback"}
            -> sum_keys(c.kind.keys, 0)
      [] c.kind.variant = "ResolveLock" -> sum_pair_keys(c.kind.key_locks, 0)
      [] c.kind.variant = "ResolveLockLite"
            -> sum_keys(c.kind.resolve_keys, 0)
      [] c.kind.variant = "Cleanup" -> 0 + Len(c.kind.key)
      [] c.kind.variant = "TxnHeartBeat" -> 0 + Len(c.kind.primary_key)
      [] c.kind.variant = "CheckTxnStatus" -> 0 + Len(c.kind.primary_key)
      [] OTHER -> 0

write_bytes(c) ==
    CASE c.kind.variant = "Prewrite" -> sum_mutations(c.kind.mutations, 0)
      [] c.kind.variant = "AcquirePessimisticLock"
            -> sum_pair_keys(c.kind.keys, 0)
      [] c.kind.variant \in {"Commit", "Rollback", "PessimisticRollback",
                             "Pause"} -> sum_keys(c.kind.keys, 0)
      [] c.kind.variant = "ResolveLock" -> sum_pair_keys(c.kind.key_locks, 0)
      [] c.kind.variant = "ResolveLockLite"
            -> sum_keys(c.kind.resolve_keys, 0)
      [] c.kind.variant = "Cleanup" -> 0 + Len(c.kind.key)
      [] c.kind.variant = "TxnHeartBeat" -> 0 + Len(c.kind.primary_key)
      [] c.kind.variant = "CheckTxnStatus" -> 0 + Len(c.kind.primary_key)
      [] OTHER -> 0

(***************************************************************************)
(* impl Display for Command.  The rendered line is the sequence of the     *)
(* pieces write! emits: the literal text of the format string and one      *)
(* piece per {} / {:?} argument.                                           *)
(***************************************************************************)
Lit(s) == [lit |-> s]

\* {} of a usize / u64
Num(n) == [num |-> n]

\* {} of a TimeStamp
DisplayTs(t) == [ts_display |-> t]

\* {:?} of a TimeStamp
DebugTs(t) == [ts_debug |-> t]

\* {} of a Key
DisplayKey(k) == [key_display |-> k]

\* {:?} of a Key
DebugKey(k) == [key_debug |-> k]

\* {:?} of an Option<Key>
DebugOptKey(o) == [opt_key_debug |-> o]

\* {:?} of self.ctx
DebugCtx(ctx) == [ctx_debug |-> ctx]

fmt(c) ==
    CASE c.kind.variant = "Prewrite" ->
            <<Lit("kv::command::prewrite mutations("),
              Num(Len(c.kind.mutations)), Lit(") @ "),
              DisplayTs(c.kind.start_ts), Lit(" | "), DebugCtx(c.ctx)>>
      [] c.kind.variant = "AcquirePessimisticLock" ->
            <<Lit("kv::command::acquirepessimisticlock keys("),
              Num(Len(c.kind.keys)), Lit(") @ "), DisplayTs(c.kind.start_ts),
              Lit(" "), DisplayTs(c.kind.options.for_update_ts), Lit(" | "),
              DebugCtx(c.ctx)>>
      [] c.kind.variant = "Commit" ->
            <<Lit("kv::command::commit "), Num(Len(c.kind.keys)), Lit(" "),
              DisplayTs(c.kind.lock_ts), Lit(" -> "),
              DisplayTs(c.kind.commit_ts), Lit(" | "), DebugCtx(c.ctx)>>
      [] c.kind.variant = "Cleanup" ->
            <<Lit("kv::command::cleanup "), DisplayKey(c.kind.key),
              Lit(" @ "), DisplayTs(c.kind.start_ts), Lit(" | "),
              DebugCtx(c.ctx)>>
      [] c.kind.variant = "Rollback" ->
            <<Lit("kv::command::rollback keys("), Num(Len(c.kind.keys)),
              Lit(") @ "), DisplayTs(c.kind.start_ts), Lit(" | "),
              DebugCtx(c.ctx)>>
      [] c.kind.variant = "PessimisticRollback" ->
            <<Lit("kv::command::pessimistic_rollback keys("),
              Num(Len(c.kind.keys)), Lit(") @ "), DisplayTs(c.kind.start_ts),
              Lit(" "), DisplayTs(c.kind.for_update_ts), Lit(" | "),
              DebugCtx(c.ctx)>>
      [] c.kind.variant = "TxnHeartBeat" ->
            <<Lit("kv::command::txn_heart_beat "),
              DisplayKey(c.kind.primary_key), Lit(" @ "),
              DisplayTs(c.kind.start_ts), Lit(" ttl "),
              Num(c.kind.advise_ttl), Lit(" | "), DebugCtx(c.ctx)>>
      [] c.kind.variant = "CheckTxnStatus" ->
            <<Lit("kv::command::check_txn_status "),
              DisplayKey(c.kind.primary_key), Lit(" @ "),
              DisplayTs(c.kind.lock_ts), Lit(" curr("),
              DisplayTs(c.kind.caller_start_ts), Lit(", "),
              DisplayTs(c.kind.current_ts), Lit(") | "), DebugCtx(c.ctx)>>
      [] c.kind.variant = "ScanLock" ->
            <<Lit("kv::scan_lock "), DebugOptKey(c.kind.start_key), Lit(" "),
              Num(c.kind.limit), Lit(" @ "), DisplayTs(c.kind.max_ts),
              Lit(" | "), DebugCtx(c.ctx)>>
      [] c.kind.variant = "ResolveLock" -> <<Lit("kv::resolve_lock")>>
      [] c.kind.variant = "ResolveLockLite" ->
            <<Lit("kv::resolve_lock_lite")>>
      [] c.kind.variant = "DeleteRange" ->
            <<Lit("kv::command::delete range ["), DebugKey(c.kind.start_key),
              Lit(", "), DebugKey(c.kind.end_key), Lit(") | "),
              DebugCtx(c.ctx)>>
      [] c.kind.variant = "Pause" ->
            <<Lit("kv::command::pause keys:("), Num(Len(c.kind.keys)),
              Lit(") "), Num(c.kind.duration), Lit(" ms | "),
              DebugCtx(c.ctx)>>
      [] c.kind.variant = "MvccByKey" ->
            <<Lit("kv::command::mvccbykey "), DebugKey(c.kind.key),
              Lit(" | "), DebugCtx(c.ctx)>>
      [] c.kind.variant = "MvccByStartTs" ->
            <<Lit("kv::command::mvccbystartts "), DebugTs(c.kind.start_ts),
              Lit(" | "), DebugCtx(c.ctx)>>

\* impl Debug for Command: write!(f, "{}", self)
debug_fmt(c) == fmt(c)

(***************************************************************************)
(* PointGetCommand and the requests it is built from.                      *)
(***************************************************************************)
\* memcomparable encoding: groups of ENC_GROUP_SIZE bytes, zero padded, each
\* followed by a marker byte ENC_MARKER - (number of padding bytes)
ENC_GROUP_SIZE == 8

ENC_MARKER == 255

RECURSIVE encode_bytes(_)
encode_bytes(raw) ==
    IF Len(raw) >= ENC_GROUP_SIZE
    THEN SubSeq(raw, 1, ENC_GROUP_SIZE) \o <<ENC_MARKER>>
            \o encode_bytes(SubSeq(raw, ENC_GROUP_SIZE + 1, Len(raw)))
    ELSE raw \o [i \in 1..(ENC_GROUP_SIZE - Len(raw)) |-> 0]
            \o <<ENC_MARKER - (ENC_GROUP_SIZE - Len(raw))>>

\* Key::from_raw
Key_from_raw(raw) == encode_bytes(raw)

RawBytes == {0, 1}

\* raw keys of a request: the short ones, one that fills a group exactly and
\* one that spills into a second group
RawKeys ==
    SeqsUpTo(RawBytes, MaxRawLen)
        \cup {[i \in 1..ENC_GROUP_SIZE |-> 1],
              [i \in 1..(ENC_GROUP_SIZE + 1) |-> 1]}

\* kvproto GetRequest / RawGetRequest; context is unset (None) or set
Requests ==
    [msg : {"GetRequest"}, context : OptionOf(Contexts), key : RawKeys,
     version : 0..MaxTs]
  \cup
    [msg : {"RawGetRequest"}, context : OptionOf(Contexts), key : RawKeys]

\* no point-get request in hand: the request went down the Command path
NoRequest == [msg |-> "None"]

\* the value request.take_context() returns
take_context(req) ==
    IF req.context = None THEN DefaultContext ELSE req.context[1]

\* the request request.take_context() leaves behind
after_take_context(req) == [req EXCEPT !.context = None]

\* from_get treating version 0 as "no timestamp"
from_get_mut(req) ==
    [ctx |-> take_context(req),
     key |-> Key_from_raw(req.key),
     ts |-> IF req.version = 0 THEN None ELSE Some(req.version)]

from_get(req) ==
    [ctx |-> take_context(req),
     key |-> Key_from_raw(req.key),
     ts |-> Some(req.version)]

from_raw_get(req) ==
    [ctx |-> take_context(req),
     key |-> Key_from_raw(req.key),
     ts |-> None]

(***************************************************************************)
(* The state machine.  cmd is the Command in hand, ret the last call made  *)
(* on it and its result; request is the point-get request in hand and      *)
(* point_get the PointGetCommand last built from it (None before).         *)
(***************************************************************************)
NoCall == [op |-> "none"]

\* the Command in hand while a point-get request is served on the fast path
IdleCommand ==
    [ctx |-> DefaultContext,
     kind |-> [variant |-> "MvccByStartTs", start_ts |-> TsZero]]

\* a Command arrives from the intake layer; no point-get request in hand
Init ==
    /\ cmd \in Command
    /\ ret = NoCall
    /\ request = NoRequest
    /\ point_get = None

\* a point-get request arrives on the fast path
InitPointGet ==
    /\ cmd = IdleCommand
    /\ ret = NoCall
    /\ request \in Requests
    /\ point_get = None

Call(op, val) ==
    /\ ret' = [op |-> op, val |-> val]
    /\ UNCHANGED <<cmd, request, point_get>>

CallReadonly == Call("readonly", readonly(cmd))

CallPriority == Call("priority", priority(cmd))

CallIsSysCmd == Call("is_sys_cmd", is_sys_cmd(cmd))

CallPriorityTag == Call("priority_tag", priority_tag(cmd))

CallNeedFlowControl == Call("need_flow_control", need_flow_control(cmd))

CallTag == Call("tag", tag(cmd))

CallTs == Call("ts", ts(cmd))

CallWriteBytes == Call("write_bytes", write_bytes(cmd))

CallDisplay == Call("display", fmt(cmd))

CallDebug == Call("debug", debug_fmt(cmd))

FromGet ==
    /\ request.msg = "GetRequest"
    /\ point_get' = Some(from_get(request))
    /\ request' = after_take_context(request)
    /\ UNCHANGED <<cmd, ret>>

FromRawGet ==
    /\ request.msg = "RawGetRequest"
    /\ point_get' = Some(from_raw_get(request))
    /\ request' = after_take_context(request)
    /\ UNCHANGED <<cmd, ret>>

Next ==
    \/ CallReadonly
    \/ CallPriority
    \/ CallIsSysCmd
    \/ CallPriorityTag
    \/ CallNeedFlowControl
    \/ CallTag
    \/ CallTs
    \/ CallWriteBytes
    \/ CallDisplay
    \/ CallDebug

Spec == Init /\ [][Next]_vars

NextPointGet ==
    \/ FromGet
    \/ FromRawGet

SpecPointGet == InitPointGet /\ [][NextPointGet]_vars

(***************************************************************************)
(* Properties.                                                             *)
(***************************************************************************)
Variant == cmd.kind.variant

Called(op) == ret.op = op

\* C1: readonly() is true for ScanLock, DeleteRange, MvccByKey and
\* MvccByStartTs and for a ResolveLock whose key_locks is empty; it is false
\* for a ResolveLock with at least one key_lock and for the ten other
\* variants, whatever the other fields and the context are.
C1_Readonly ==
    Called("readonly") =>
        /\ Variant \in {"ScanLock", "DeleteRange", "MvccByKey", "MvccByStartTs"}
              => ret.val = TRUE
        /\ Variant = "ResolveLock" /\ Len(cmd.kind.key_locks) = 0
              => ret.val = TRUE
        /\ Variant = "ResolveLock" /\ Len(cmd.kind.key_locks) >= 1
              => ret.val = FALSE
        /\ Variant \in {"Prewrite", "AcquirePessimisticLock", "Commit",
                        "Cleanup", "Rollback", "PessimisticRollback",
                        "TxnHeartBeat", "CheckTxnStatus", "ResolveLockLite",
                        "Pause"}
              => ret.val = FALSE

C1_Witness ==
    /\ Called("readonly")
    /\ Variant = "ResolveLock"
    /\ Len(cmd.kind.key_locks) >= 1
    /\ cmd.ctx.priority = "High"
    /\ ret.val = FALSE

\* C2: need_flow_control() is true iff readonly() is false and the context
\* priority is not High; it is false whenever readonly() is true (DeleteRange
\* and an empty-key_locks ResolveLock included) and false for every
\* High-priority command.
C2_NeedFlowControl ==
    Called("need_flow_control") =>
        /\ ret.val = TRUE <=> (readonly(cmd) = FALSE /\ cmd.ctx.priority # "High")
        /\ Variant = "DeleteRange" => ret.val = FALSE
        /\ Variant = "ResolveLock" /\ cmd.kind.key_locks = <<>>
              => ret.val = FALSE
        /\ cmd.ctx.priority = "High" => ret.val = FALSE
        /\ Variant \in {"Prewrite", "Commit", "Pause"}
              /\ cmd.ctx.priority \in {"Low", "Normal"} => ret.val = TRUE

C2_Witness ==
    /\ Called("need_flow_control")
    /\ Variant = "Prewrite"
    /\ cmd.ctx.priority = "High"
    /\ ret.val = FALSE

\* the timestamp fields a variant carries
TsFieldsOf(k) ==
    CASE k.variant = "Prewrite" -> {k.start_ts}
      [] k.variant = "AcquirePessimisticLock" -> {k.start_ts}
      [] k.variant = "Commit" -> {k.lock_ts, k.commit_ts}
      [] k.variant = "Cleanup" -> {k.start_ts, k.current_ts}
      [] k.variant = "Rollback" -> {k.start_ts}
      [] k.variant = "PessimisticRollback" -> {k.start_ts, k.for_update_ts}
      [] k.variant = "TxnHeartBeat" -> {k.start_ts}
      [] k.variant = "CheckTxnStatus"
            -> {k.lock_ts, k.caller_start_ts, k.current_ts}
      [] k.variant = "ScanLock" -> {k.max_ts}
      [] k.variant = "ResolveLockLite" -> {k.start_ts, k.commit_ts}
      [] k.variant = "MvccByStartTs" -> {k.start_ts}
      [] OTHER -> {}

\* C3: ts() is start_ts for Prewrite, AcquirePessimisticLock, Cleanup,
\* Rollback, PessimisticRollback, TxnHeartBeat, MvccByStartTs and
\* ResolveLockLite, lock_ts for Commit and CheckTxnStatus, max_ts for
\* ScanLock and zero for ResolveLock, DeleteRange, Pause and MvccByKey; when
\* all timestamp fields are non-zero, ts() is zero iff the variant is one of
\* those four.
C3_Ts ==
    Called("ts") =>
        /\ Variant \in {"Prewrite", "AcquirePessimisticLock", "Cleanup",
                        "Rollback", "PessimisticRollback", "TxnHeartBeat",
                        "MvccByStartTs", "ResolveLockLite"}
              => ret.val = cmd.kind.start_ts
        /\ Variant \in {"Commit", "CheckTxnStatus"} => ret.val = cmd.kind.lock_ts
        /\ Variant = "ScanLock" => ret.val = cmd.kind.max_ts
        /\ Variant \in {"ResolveLock", "DeleteRange", "Pause", "MvccByKey"}
              => ret.val = 0
        /\ (\A t \in TsFieldsOf(cmd.kind) : t # 0)
              => (ret.val = 0 <=> Variant \in {"ResolveLock", "DeleteRange",
                                               "Pause", "MvccByKey"})

C3_Witness ==
    /\ Called("ts")
    /\ Variant = "Commit"
    /\ cmd.kind.lock_ts # 0
    /\ cmd.kind.commit_ts = 0
    /\ ret.val = cmd.kind.lock_ts

\* key length plus, for Put and Insert only, value length of the n first
\* mutations of ms
RECURSIVE PrewriteWeight(_, _)
PrewriteWeight(ms, n) ==
    IF n = 0 THEN 0
    ELSE PrewriteWeight(ms, n - 1) + Len(ms[n].key)
            + (IF ms[n].op \in {"Put", "Insert"} THEN Len(ms[n].value) ELSE 0)

\* C4: for a Prewrite, write_bytes() is the sum over the mutations of the
\* encoded key length plus the value length for Put and Insert only; for
\* ScanLock it is 0 whatever start_key, max_ts and limit are.
C4_WriteBytesPrewrite ==
    Called("write_bytes") =>
        /\ Variant = "Prewrite"
              => ret.val = PrewriteWeight(cmd.kind.mutations,
                                          Len(cmd.kind.mutations))
        /\ Variant = "ScanLock" => ret.val = 0

C4_Witness ==
    /\ Called("write_bytes")
    /\ Variant = "Prewrite"
    /\ Len(cmd.kind.mutations) = 2
    /\ cmd.kind.mutations[1] = [op |-> "Put", key |-> <<0>>, value |-> <<0>>]
    /\ cmd.kind.mutations[2] = [op |-> "Delete", key |-> <<0>>]
    /\ ret.val = 3

\* one command of every variant
SampleCommand ==
    [v \in Variants |->
        [ctx |-> DefaultContext, kind |-> CHOOSE k \in KindsOf(v) : TRUE]]

\* C5: tag() is total and injective on the 15 variants: commands of
\* different variants get different tags, commands of the same variant get
\* the same tag whatever their fields and context are (a pessimistic
\* Prewrite maps to the prewrite tag).
C5_TagInjective ==
    Called("tag") =>
        /\ \A v \in Variants : ret.val = tag(SampleCommand[v]) <=> v = Variant
        /\ Variant = "Prewrite" => ret.val = "prewrite"

C5_Witness ==
    /\ Called("tag")
    /\ Variant = "Prewrite"
    /\ cmd.kind.options.for_update_ts # 0
    /\ ret.val = "prewrite"

\* C6: is_sys_cmd() is true exactly for ScanLock, ResolveLock and
\* ResolveLockLite, independent of every field and of the priority.
C6_IsSysCmd ==
    Called("is_sys_cmd") =>
        (ret.val = TRUE
            <=> Variant \in {"ScanLock", "ResolveLock", "ResolveLockLite"})

C6_Witness ==
    /\ Called("is_sys_cmd")
    /\ Variant = "ResolveLock"
    /\ cmd.kind.key_locks = <<>>
    /\ cmd.ctx.priority = "Low"
    /\ ret.val = TRUE

\* C7: for every variant, the rendering of a Command (Display, and Debug
\* which delegates to it) includes the request context's debug form.
C7_DisplayIncludesCtx ==
    (Called("display") \/ Called("debug")) =>
        \E i \in 1..Len(ret.val) : ret.val[i] = DebugCtx(cmd.ctx)

\* the encoded length of every key a variant carries, each occurrence once
RECURSIVE KeysWeight(_, _)
KeysWeight(ks, n) ==
    IF n = 0 THEN 0 ELSE KeysWeight(ks, n - 1) + Len(ks[n])

RECURSIVE PairKeysWeight(_, _)
PairKeysWeight(ps, n) ==
    IF n = 0 THEN 0 ELSE PairKeysWeight(ps, n - 1) + Len(ps[n][1])

\* what the variants that write_bytes() weighs carry
WeighedKeys(k) ==
    CASE k.variant = "Prewrite" -> PrewriteWeight(k.mutations, Len(k.mutations))
      [] k.variant = "AcquirePessimisticLock"
            -> PairKeysWeight(k.keys, Len(k.keys))
      [] k.variant \in {"Commit", "Rollback", "PessimisticRollback", "Pause"}
            -> KeysWeight(k.keys, Len(k.keys))
      [] k.variant = "ResolveLock"
            -> PairKeysWeight(k.key_locks, Len(k.key_locks))
      [] k.variant = "ResolveLockLite"
            -> KeysWeight(k.resolve_keys, Len(k.resolve_keys))
      [] k.variant = "Cleanup" -> Len(k.key)
      [] k.variant \in {"TxnHeartBeat", "CheckTxnStatus"} -> Len(k.primary_key)

\* C8 as stated: write_bytes() counts every key the command carries (keys,
\* key_locks keys, resolve_keys, key, primary_key, start_key, end_key) once,
\* and variants that carry no keys give zero.
C8_EveryCarriedKeyCounted ==
    Called("write_bytes") =>
        ret.val =
            CASE Variant = "DeleteRange"
                    -> Len(cmd.kind.start_key) + Len(cmd.kind.end_key)
              [] Variant = "MvccByKey" -> Len(cmd.kind.key)
              [] Variant = "ScanLock"
                    -> KeysWeight(cmd.kind.start_key, Len(cmd.kind.start_key))
              [] Variant = "MvccByStartTs" -> 0
              [] OTHER -> WeighedKeys(cmd.kind)

\* C8 (amended): write_bytes() is the sum of the encoded key lengths (plus
\* value lengths of Put/Insert mutations) over the keys of Prewrite,
\* AcquirePessimisticLock, Commit, Rollback, PessimisticRollback, Pause,
\* ResolveLock (key_locks), ResolveLockLite (resolve_keys), Cleanup,
\* TxnHeartBeat and CheckTxnStatus, each occurrence counted once; it is zero
\* for ScanLock, DeleteRange, MvccByKey and MvccByStartTs, although the first
\* three carry keys (start_key, end_key, key).
C8_WriteBytesWeighedVariants ==
    Called("write_bytes") =>
        ret.val =
            CASE Variant \in {"ScanLock", "DeleteRange", "MvccByKey",
                              "MvccByStartTs"} -> 0
              [] OTHER -> WeighedKeys(cmd.kind)

C8_Witness ==
    /\ Called("write_bytes")
    /\ Variant = "DeleteRange"
    /\ Len(cmd.kind.start_key) + Len(cmd.kind.end_key) > 0
    /\ ret.val = 0

\* the order Low < Normal < High of the priority levels and of the metrics
\* categories
LevelOrder == <<"Low", "Normal", "High">>

CategoryOrder == <<"low", "normal", "high">>

RankIn(order, x) == CHOOSE i \in 1..Len(order) : order[i] = x

\* C9: priority() returns the context's priority unchanged for every
\* variant; priority_tag() maps it by the total, order-preserving function
\* Low->low, Normal->normal, High->high and depends on nothing else.
C9_Priority ==
    /\ Called("priority") => ret.val = cmd.ctx.priority
    /\ Called("priority_tag") =>
          /\ cmd.ctx.priority = "Low" => ret.val = "low"
          /\ cmd.ctx.priority = "Normal" => ret.val = "normal"
          /\ cmd.ctx.priority = "High" => ret.val = "high"
          /\ \A p, q \in CommandPri :
                RankIn(LevelOrder, p) < RankIn(LevelOrder, q)
                    => RankIn(CategoryOrder, get_priority_tag(p))
                          < RankIn(CategoryOrder, get_priority_tag(q))

C9_Witness ==
    /\ Called("priority_tag")
    /\ cmd.ctx.priority = "Low"
    /\ Variant = "Prewrite"
    /\ ret.val = "low"

\* a constructor ran in this step
Constructed == point_get' # point_get \/ request' # request

\* the context a request hands over: the one it holds, the default if unset
ContextOf(req) ==
    IF Len(req.context) = 0 THEN [priority |-> "Normal"] ELSE req.context[1]

\* C10: from_get and from_raw_get build the same shape and differ only in
\* the timestamp: from_get yields ts present and equal to the request's
\* version (also when it is 0), from_raw_get yields ts absent; both take the
\* request's context and set key to the encoded form of the raw key.
C10_PointGetConstructors ==
    [][Constructed =>
        /\ Len(point_get') = 1
        /\ DOMAIN point_get'[1] = {"ctx", "key", "ts"}
        /\ point_get'[1].ctx = ContextOf(request)
        /\ request'.context = None
        /\ point_get'[1].key = Key_from_raw(request.key)
        /\ Len(point_get'[1].key)
              = (ENC_GROUP_SIZE + 1) * ((Len(request.key) \div ENC_GROUP_SIZE) + 1)
        /\ request.msg = "GetRequest" => point_get'[1].ts = <<request.version>>
        /\ request.msg = "RawGetRequest" => point_get'[1].ts = <<>>
      ]_vars

C10_Witness ==
    /\ point_get # None
    /\ request.msg = "GetRequest"
    /\ request.version = 0
    /\ point_get[1].ts = <<0>>
    /\ point_get[1].ctx.priority = "High"

\* a Commit that names no key
EmptyCommit ==
    [ctx |-> [priority |-> "Normal"],
     kind |-> [variant |-> "Commit", keys |-> <<>>, lock_ts |-> MaxTs,
               commit_ts |-> MaxTs]]

\* C11: whenever readonly() is true, write_bytes() is 0 (ScanLock,
\* DeleteRange, MvccByKey, MvccByStartTs and a ResolveLock with empty
\* key_locks all weigh zero); the converse does not hold: a Commit with an
\* empty key list weighs 0 and is not read-only.
C11_ReadonlyWeighsZero ==
    /\ Called("readonly") /\ ret.val = TRUE => write_bytes(cmd) = 0
    /\ Called("write_bytes") /\ readonly(cmd) = TRUE => ret.val = 0
    /\ Called("write_bytes") /\ Variant = "Commit" /\ Len(cmd.kind.keys) = 0
          => ret.val = 0 /\ readonly(cmd) = FALSE
    /\ write_bytes(EmptyCommit) = 0 /\ readonly(EmptyCommit) = FALSE

C11_Witness ==
    /\ Called("readonly")
    /\ ret.val = TRUE
    /\ Variant = "DeleteRange"
    /\ Len(cmd.kind.start_key) > 0
    /\ Len(cmd.kind.end_key) > 0
    /\ write_bytes(cmd) = 0

====
